---------------------------- MODULE Spec2Model ----------------------------
(***************************************************************************)
(* Model of src/network/mtr.py: class MTRTracer, and of the part of        *)
(* src/gui/app.py: class MTRApp that starts traces and receives results.   *)
(*                                                                         *)
(* A text (a Python str) is a sequence of characters; a character is a     *)
(* one-element string, except "TAB" (U+0009) and "SUP2" (U+00B2,           *)
(* SUPERSCRIPT TWO) which stand for one character each.                    *)
(* A latency is a rational <<n, d>> in lowest terms (d > 0); Python's      *)
(* float quotient sum(rtts) / len(rtts) is modelled by the exact quotient. *)
(***************************************************************************)
EXTENDS Integers, Sequences, FiniteSets, TLC

(***************************************************************************)
(* Bounds of the model.                                                    *)
(***************************************************************************)
MaxHops == 2
MaxLines == 2
MaxWorkers == 2

(***************************************************************************)
(* Characters and the str methods the parser uses.                         *)
(***************************************************************************)
AsciiDigits == {"0", "1", "2", "3", "4", "5", "6", "7", "8", "9"}

\* str.isspace() on one character
IsSpace(c) == c \in {" ", "TAB"}

\* value of a decimal digit
DigitVal(c) ==
    CASE c = "0" -> 0 [] c = "1" -> 1 [] c = "2" -> 2 [] c = "3" -> 3
      [] c = "4" -> 4 [] c = "5" -> 5 [] c = "6" -> 6 [] c = "7" -> 7
      [] c = "8" -> 8 [] c = "9" -> 9

\* str.isdigit(): every character is a digit, superscript digits included,
\* and there is at least one character
StrIsDigit(tok) ==
    Len(tok) > 0 /\ \A k \in 1..Len(tok) : tok[k] \in AsciiDigits \cup {"SUP2"}

\* int(tok) succeeds on a token that passed isdigit() only when every
\* character is a decimal digit; on "SUP2" it raises ValueError
IntRaises(tok) == \E k \in 1..Len(tok) : tok[k] \notin AsciiDigits

RECURSIVE IntOf(_)
IntOf(tok) ==
    IF tok = <<>> THEN 0
    ELSE 10 * IntOf(SubSeq(tok, 1, Len(tok) - 1)) + DigitVal(tok[Len(tok)])

\* str.strip()
RECURSIVE LStrip(_)
LStrip(s) ==
    IF s # <<>> /\ IsSpace(s[1]) THEN LStrip(Tail(s)) ELSE s

RECURSIVE RStrip(_)
RStrip(s) ==
    IF s # <<>> /\ IsSpace(s[Len(s)]) THEN RStrip(SubSeq(s, 1, Len(s) - 1)) ELSE s

Strip(s) == RStrip(LStrip(s))

\* the end (exclusive) of the run of non-space characters that starts at i
RECURSIVE WordEnd(_, _)
WordEnd(s, i) ==
    IF i <= Len(s) /\ ~IsSpace(s[i]) THEN WordEnd(s, i + 1) ELSE i

\* str.split(): the maximal runs of non-space characters
RECURSIVE Split(_)
Split(s) ==
    LET t == LStrip(s)
        e == WordEnd(t, 1)
    IN  IF t = <<>> THEN <<>>
        ELSE <<SubSeq(t, 1, e - 1)>> \o Split(SubSeq(t, e, Len(t)))

\* str.startswith(p)
StartsWith(s, p) == Len(s) >= Len(p) /\ SubSeq(s, 1, Len(p)) = p

\* str.lower(), on the letters that occur in the model's texts
LowerChar(c) ==
    CASE c = "O" -> "o" [] c = "T" -> "t" [] OTHER -> c

Lower(s) == [k \in 1..Len(s) |-> LowerChar(s[k])]

(***************************************************************************)
(* The two regular expressions.                                            *)
(***************************************************************************)
\* the end (exclusive) of the run of decimal digits that starts at i: \d+
\* matched greedily (no shorter run can be followed by a non-digit)
RECURSIVE DigitsEnd(_, _)
DigitsEnd(s, i) ==
    IF i <= Len(s) /\ s[i] \in AsciiDigits THEN DigitsEnd(s, i + 1) ELSE i

\* the end (exclusive) of the run of white space that starts at i: \s*
RECURSIVE SpacesEnd(_, _)
SpacesEnd(s, i) ==
    IF i <= Len(s) /\ IsSpace(s[i]) THEN SpacesEnd(s, i + 1) ELSE i

\* \d+\. at i: the index after the dot, or 0 when there is no match
DigitsDotEnd(s, i) ==
    LET e == DigitsEnd(s, i)
    IN  IF i > 0 /\ e > i /\ e <= Len(s) /\ s[e] = "." THEN e + 1 ELSE 0

\* ip_re = (\d+\.\d+\.\d+\.\d+) at i: the end (exclusive), or 0
IpEndAt(s, i) ==
    LET a == DigitsDotEnd(s, i)
        b == DigitsDotEnd(s, a)
        c == DigitsDotEnd(s, b)
        e == DigitsEnd(s, c)
    IN  IF c > 0 /\ e > c THEN e ELSE 0

\* ip_re.search(line): the leftmost match, or <<>> for None
IpSearch(s) ==
    LET starts == {i \in 1..Len(s) : IpEndAt(s, i) > 0}
    IN  IF starts = {} THEN <<>>
        ELSE LET i == CHOOSE x \in starts : \A y \in starts : x <= y
             IN  <<SubSeq(s, i, IpEndAt(s, i) - 1)>>

\* rtt_re = <?(\d+)\s*ms at i: <<end (exclusive), the digits>>, or <<0, <<>>>>
RttAt(s, i) ==
    LET d == IF i <= Len(s) /\ s[i] = "<" THEN i + 1 ELSE i
        e == DigitsEnd(s, d)
        m == SpacesEnd(s, e)
    IN  IF e > d /\ m + 1 <= Len(s) /\ s[m] = "m" /\ s[m + 1] = "s"
        THEN <<m + 2, SubSeq(s, d, e - 1)>>
        ELSE <<0, <<>>>>

\* rtt_re.findall(line) from i on: the groups of the non-overlapping matches,
\* left to right, each converted by int()
RECURSIVE RttFindAll(_, _)
RttFindAll(s, i) ==
    IF i > Len(s) THEN <<>>
    ELSE LET r == RttAt(s, i)
         IN  IF r[1] > 0 THEN <<IntOf(r[2])>> \o RttFindAll(s, r[1])
             ELSE RttFindAll(s, i + 1)

(***************************************************************************)
(* Latencies.                                                              *)
(***************************************************************************)
RECURSIVE Gcd(_, _)
Gcd(a, b) == IF b = 0 THEN a ELSE Gcd(b, a % b)

RECURSIVE Sum(_)
Sum(q) == IF q = <<>> THEN 0 ELSE q[1] + Sum(Tail(q))

\* the rational n / d (n >= 0, d > 0) in lowest terms
Ratio(n, d) == LET g == Gcd(n, d) IN <<n \div g, d \div g>>

\* the number -1
MinusOne == <<-1, 1>>

\* lines 48-52: the mean of the samples, or -1 when there are none
LatencyOf(rtts) ==
    IF rtts # <<>> THEN Ratio(Sum(rtts), Len(rtts)) ELSE MinusOne

\* the address "*"
Star == <<"*">>

(***************************************************************************)
(* The texts of the model.                                                 *)
(***************************************************************************)
\* a literal IPv4 target, another router's address, a host name, and the
\* hardware address of a reply without an IP layer
IpTarget == <<"9", ".", "9", ".", "9", ".", "9">>
IpOther == <<"7", ".", "7", ".", "7", ".", "7">>
HostName == <<"h", "o", "s", "t">>
MacAddr == <<"a", "a", ":", "b", "b">>

\* line 33: the two header prefixes
TracingRoute == <<"T", "r", "a", "c", "i", "n", "g", " ", "r", "o", "u", "t", "e">>
OverAMaximum == <<"o", "v", "e", "r", " ", "a", " ", "m", "a", "x", "i", "m", "u", "m">>

\* the lines the external tool may print
Lines == {
    \* "  1  <1 ms  2 ms  7.7.7.7"
    <<" ", " ", "1", " ", " ", "<", "1", " ", "m", "s", " ", " ", "2", " ", "m", "s", " ", " ">> \o IpOther,
    \* "2 3 ms 9.9.9.9"
    <<"2", " ", "3", " ", "m", "s", " ">> \o IpTarget,
    \* "3 * *"
    <<"3", " ", "*", " ", "*">>,
    \* "1 2 ms": samples but no address
    <<"1", " ", "2", " ", "m", "s">>,
    \* "2 7.7.7.7": an address but no sample
    <<"2", " ">> \o IpOther,
    \* "" and " <TAB>"
    <<>>,
    <<" ", "TAB">>,
    \* "Tracing route 9.9.9.9 3 ms"
    TracingRoute \o <<" ">> \o IpTarget \o <<" ", "3", " ", "m", "s">>,
    \* "Over a maximum 7"
    <<"O">> \o Tail(OverAMaximum) \o <<" ", "7">>,
    \* "Trace 1 ms"
    <<"T", "r", "a", "c", "e", " ", "1", " ", "m", "s">>,
    \* "-1 7.7.7.7 2 ms"
    <<"-", "1", " ">> \o IpOther \o <<" ", "2", " ", "m", "s">>,
    \* "<SUP2> 7.7.7.7"
    <<"SUP2", " ">> \o IpOther,
    \* "2 7.7.7.7 9.9.9.9"
    <<"2", " ">> \o IpOther \o <<" ">> \o IpTarget,
    \* "3 9.9.9.9"
    <<"3", " ">> \o IpTarget
  }

\* the sequences of at most n lines
RECURSIVE SeqsUpTo(_, _)
SeqsUpTo(S, n) ==
    IF n = 0 THEN {<<>>}
    ELSE LET shorter == SeqsUpTo(S, n - 1)
         IN  shorter \cup {Append(q, x) : q \in {r \in shorter : Len(r) = n - 1}, x \in S}

\* proc.stdout.splitlines(): what the subprocess may have printed
Outputs == SeqsUpTo(Lines, MaxLines)

(***************************************************************************)
(* The configuration and the environment.                                  *)
(***************************************************************************)
Targets == {IpTarget, HostName}
Methods == {"tracert", "scapy", "auto"}
Platforms == {<<"w", "i", "n", "3", "2">>, <<"d", "a", "r", "w", "i", "n">>}
Win == <<"w", "i", "n">>

\* get_if_list(): the platform's interface names
IfLists == {<<>>, <<"lo", "eth0">>, <<"eth0">>}

\* (time.time() - start_time) * 1000 of an answered probe
Elapsed == {<<0, 1>>, <<4, 1>>}

\* the source address of a reply: reply[IP].src, or reply.src of a frame
\* without an IP layer
ReplySrcs == {IpTarget, IpOther, MacAddr}

VARIABLES
    target_host,   \* self.target_host
    max_hops,      \* self.max_hops
    method,        \* self.method
    platform,      \* sys.platform
    conf_iface,    \* scapy's process-wide conf.iface
    pc,            \* where the trace() call is
    site,          \* the line of trace() that called the running strategy
    out,           \* _tracert_trace: the lines of the tool's output
    idx,           \* _tracert_trace: the position of the for loop in out
    hops,          \* the running strategy's local list hops
    interfaces,    \* _scapy_trace: the local list interfaces
    ttl,           \* _scapy_trace: the loop variable
    calls,         \* the strategies entered so far, in order
    probes,        \* the TTLs of the probes handed to srp(), in order
    ret_tracert,   \* <<h>> once _tracert_trace has returned h, else <<>>
    ret_scapy,     \* <<h>> once _scapy_trace has returned h, else <<>>
    result,        \* <<h>> once trace() has returned h, else <<>>
    trace_thread,  \* MTRApp._trace_thread: 0 for None, else the thread
    worker_pc,     \* each worker thread: where it is
    worker_tgt,    \* each worker thread: its argument tgt
    worker_hops,   \* each worker thread: its local hops
    started,       \* the number of Thread objects created so far
    target_entry,  \* the text of MTRApp.target_entry
    init_pending,  \* whether root.after(100, start_and_schedule) is pending
    auto_after_id, \* MTRApp.auto_after_id: 0 for None, else an after id
    after_pending, \* the ids of the pending root.after(.., _auto_trace)
    completions,   \* the pending root.after(0, ..) callbacks, in order
    delivered,     \* each worker: the calls of _on_trace_complete with its hops
    event          \* the handler or thread step that ran last

tracer == <<target_host, max_hops, method, platform, conf_iface, pc, site, out,
            idx, hops, interfaces, ttl, calls, probes, ret_tracert, ret_scapy,
            result>>

gui == <<trace_thread, worker_pc, worker_tgt, worker_hops, started,
         target_entry, init_pending, auto_after_id, after_pending,
         completions, delivered, event>>

vars == <<tracer, gui>>

\* the worker threads the model can create
Workers == 1..MaxWorkers

\* app.py lines 24-33, 50: the application as constructed, no trace asked for
GuiConstructed ==
    /\ trace_thread = 0
    /\ worker_pc = [w \in Workers |-> "none"]
    /\ worker_tgt = [w \in Workers |-> <<>>]
    /\ worker_hops = [w \in Workers |-> <<>>]
    /\ started = 0
    /\ target_entry = IpTarget
    /\ auto_after_id = 0
    /\ after_pending = {}
    /\ completions = <<>>
    /\ delivered = [w \in Workers |-> <<>>]

config == <<target_host, max_hops, method, platform>>
tracertLocals == <<out, idx>>
scapyLocals == <<interfaces, ttl>>
returns == <<ret_tracert, ret_scapy, result>>

\* lines 9-13: a tracer as constructed, about to be asked to trace()
Init ==
    /\ target_host \in Targets
    /\ max_hops \in 1..MaxHops
    /\ method \in Methods
    /\ platform \in Platforms
    /\ conf_iface = "eth0"
    /\ pc = "trace"
    /\ site = ""
    /\ out = <<>>
    /\ idx = 0
    /\ hops = <<>>
    /\ interfaces = <<>>
    /\ ttl = 0
    /\ calls = <<>>
    /\ probes = <<>>
    /\ ret_tracert = <<>>
    /\ ret_scapy = <<>>
    /\ result = <<>>
    /\ GuiConstructed
    /\ init_pending = FALSE
    /\ event = <<"none", "none">>

(***************************************************************************)
(* _tracert_trace                                                          *)
(***************************************************************************)
\* lines 30-54: what one line of the output yields
ParseLine(raw) ==
    LET line == Strip(raw)
        parts == Split(line)
        ip_match == IpSearch(line)
        rtts == RttFindAll(line, 1)
    IN  IF line = <<>> THEN [kind |-> "skip"]
        ELSE IF StartsWith(line, TracingRoute) \/ StartsWith(Lower(line), OverAMaximum)
        THEN [kind |-> "skip"]
        ELSE IF parts = <<>> THEN [kind |-> "skip"]
        ELSE IF ~StrIsDigit(parts[1]) THEN [kind |-> "skip"]
        ELSE IF IntRaises(parts[1]) THEN [kind |-> "raise"]
        ELSE [kind |-> "hop",
              rec |-> [hop |-> IntOf(parts[1]),
                       ip |-> IF ip_match # <<>> THEN ip_match[1] ELSE Star,
                       latency |-> LatencyOf(rtts)]]

\* lines 55-56 without the break
StopsAt_NoBreak(rec) == FALSE

\* lines 55-56: whether the loop breaks after this record
StopsAt(rec) == rec.ip = target_host

\* lines 17-21: the subprocess ran and printed o
TracertSubprocess ==
    /\ pc = "tracert"
    /\ \E o \in Outputs : out' = o
    /\ idx' = 1
    /\ hops' = <<>>
    /\ calls' = Append(calls, "tracert")
    /\ pc' = "parse"
    /\ UNCHANGED <<gui, config, conf_iface, site, scapyLocals, probes, returns>>

\* lines 22-24: the subprocess could not be run or timed out
TracertSubprocessFails ==
    /\ pc = "tracert"
    /\ out' = <<>>
    /\ idx' = 0
    /\ hops' = <<>>
    /\ calls' = Append(calls, "tracert")
    /\ pc' = "tracert_ret"
    /\ UNCHANGED <<gui, config, conf_iface, site, scapyLocals, probes, returns>>

\* lines 29-56: one iteration of the for loop
ParseStep ==
    /\ pc = "parse"
    /\ idx <= Len(out)
    /\ LET r == ParseLine(out[idx])
       IN  CASE r.kind = "skip" ->
                  /\ idx' = idx + 1
                  /\ UNCHANGED <<hops, pc>>
             [] r.kind = "raise" ->
                  /\ pc' = "raised"
                  /\ UNCHANGED <<hops, idx>>
             [] r.kind = "hop" ->
                  /\ hops' = Append(hops, r.rec)
                  /\ IF StopsAt(r.rec)
                     THEN pc' = "tracert_ret" /\ idx' = idx
                     ELSE pc' = "parse" /\ idx' = idx + 1
    /\ UNCHANGED <<gui, config, conf_iface, site, out, scapyLocals, calls, probes, returns>>

\* lines 29, 58: the output is exhausted
ParseEnd ==
    /\ pc = "parse"
    /\ idx > Len(out)
    /\ pc' = "tracert_ret"
    /\ UNCHANGED <<gui, config, conf_iface, site, tracertLocals, hops, scapyLocals,
                   calls, probes, returns>>

(***************************************************************************)
(* _scapy_trace                                                            *)
(***************************************************************************)
\* line 75 numbering the hops from 0
TimeoutRecord_ZeroBased(t) == [hop |-> t - 1, ip |-> Star, latency |-> MinusOne]

\* line 75 recording the time waited for the answer that did not come
TimeoutRecord_Elapsed(t) == [hop |-> t, ip |-> Star, latency |-> <<2000, 1>>]

\* line 75: the record of a probe that nothing answered
TimeoutRecord(t) == [hop |-> t, ip |-> Star, latency |-> MinusOne]

\* lines 77-79: the record of an answered probe
ReplyRecord(t, src, elapsed) == [hop |-> t, ip |-> src, latency |-> elapsed]

\* lines 80-81: whether the loop breaks after this reply
TerminalReply(src) == src = target_host

\* line 68 with range(1, self.max_hops + 2)
InRange_OneMore(t) == t <= max_hops + 1

\* line 68: whether range(1, self.max_hops + 1) still yields t
InRange(t) == t <= max_hops

\* lines 62-66: the interface lookup, which writes scapy's conf.iface
ScapyEnter ==
    /\ pc = "scapy"
    /\ \E ifs \in IfLists :
          /\ interfaces' = ifs
          /\ conf_iface' = IF ifs # <<>> THEN ifs[1] ELSE conf_iface
    /\ hops' = <<>>
    /\ ttl' = 1
    /\ out' = <<>>
    /\ idx' = 0
    /\ calls' = Append(calls, "scapy")
    /\ pc' = "probe"
    /\ UNCHANGED <<gui, config, site, probes, returns>>

\* line 64: get_if_list() raises; nothing in _scapy_trace or trace() catches it
ScapyEnterRaises ==
    /\ pc = "scapy"
    /\ hops' = <<>>
    /\ out' = <<>>
    /\ idx' = 0
    /\ calls' = Append(calls, "scapy")
    /\ pc' = "raised"
    /\ UNCHANGED <<gui, config, conf_iface, site, scapyLocals, probes, returns>>

\* lines 68-81: one iteration of the loop, the probe unanswered
ProbeTimeout ==
    /\ pc = "probe"
    /\ InRange(ttl)
    /\ probes' = Append(probes, ttl)
    /\ hops' = Append(hops, TimeoutRecord(ttl))
    /\ ttl' = ttl + 1
    /\ UNCHANGED <<gui, config, conf_iface, pc, site, tracertLocals, interfaces, calls, returns>>

\* lines 68-81: one iteration of the loop, the probe answered
ProbeReply ==
    /\ pc = "probe"
    /\ InRange(ttl)
    /\ probes' = Append(probes, ttl)
    /\ \E src \in ReplySrcs, elapsed \in Elapsed :
          /\ hops' = Append(hops, ReplyRecord(ttl, src, elapsed))
          /\ IF TerminalReply(src)
             THEN pc' = "scapy_ret" /\ ttl' = ttl
             ELSE pc' = "probe" /\ ttl' = ttl + 1
    /\ UNCHANGED <<gui, config, conf_iface, site, tracertLocals, interfaces, calls, returns>>

\* lines 70-71: building the packet raises (before anything is sent) or
\* srp() raises (possibly after sending); nothing catches it
ProbeRaises ==
    /\ pc = "probe"
    /\ InRange(ttl)
    /\ probes' \in {probes, Append(probes, ttl)}
    /\ pc' = "raised"
    /\ UNCHANGED <<gui, config, conf_iface, site, tracertLocals, hops, scapyLocals, calls, returns>>

\* lines 68, 83: the range is exhausted
ProbeEnd ==
    /\ pc = "probe"
    /\ ~InRange(ttl)
    /\ pc' = "scapy_ret"
    /\ UNCHANGED <<gui, config, conf_iface, site, tracertLocals, hops, scapyLocals,
                   calls, probes, returns>>

(***************************************************************************)
(* trace                                                                   *)
(***************************************************************************)
\* line 87: self.method == "tracert" and sys.platform.startswith("win")
TracertOnWindows == method = "tracert" /\ StartsWith(platform, Win)

\* lines 87-98: which strategy trace() calls first, and from which line
Trace ==
    /\ pc = "trace"
    /\ IF TracertOnWindows THEN pc' = "tracert" /\ site' = "L88"
       ELSE IF method = "scapy" THEN pc' = "scapy" /\ site' = "L95"
       ELSE pc' = "tracert" /\ site' = "L98"
    /\ UNCHANGED <<gui, config, conf_iface, tracertLocals, hops, scapyLocals, calls,
                   probes, returns>>

\* line 89 with the test inverted
ReturnsTracertHops_Inverted(h) == h = <<>>

\* line 89: whether trace() returns what _tracert_trace returned at line 88
ReturnsTracertHops(h) == h # <<>>

\* lines 58, 88-92, 98: _tracert_trace returns hops to its caller
TracertReturn ==
    /\ pc = "tracert_ret"
    /\ ret_tracert' = <<hops>>
    /\ IF site = "L88" /\ ~ReturnsTracertHops(hops)
       THEN /\ pc' = "scapy"
            /\ site' = "L92"
            /\ UNCHANGED result
       ELSE /\ pc' = "done"
            /\ result' = <<hops>>
            /\ UNCHANGED site
    /\ UNCHANGED <<gui, config, conf_iface, tracertLocals, hops, scapyLocals, calls,
                   probes, ret_scapy>>

\* lines 83, 92, 95: _scapy_trace returns hops, and trace() returns them
ScapyReturn ==
    /\ pc = "scapy_ret"
    /\ ret_scapy' = <<hops>>
    /\ result' = <<hops>>
    /\ pc' = "done"
    /\ UNCHANGED <<gui, config, conf_iface, site, tracertLocals, hops, scapyLocals,
                   calls, probes, ret_tracert>>

Next ==
    \/ Trace
    \/ TracertSubprocess
    \/ TracertSubprocessFails
    \/ ParseStep
    \/ ParseEnd
    \/ TracertReturn
    \/ ScapyEnter
    \/ ScapyEnterRaises
    \/ ProbeTimeout
    \/ ProbeReply
    \/ ProbeRaises
    \/ ProbeEnd
    \/ ScapyReturn

Spec == Init /\ [][Next]_vars

(***************************************************************************)
(* MTRApp (src/gui/app.py): starting traces and receiving their results.   *)
(* Handlers run one at a time in Tk's main thread; the steps of a worker   *)
(* thread interleave with them.  A trace() call is taken as one step of    *)
(* its worker, with any hop list as result.  An after id that is neither   *)
(* pending nor held in auto_after_id may be given out again.               *)
(***************************************************************************)
\* what tracer.trace() may return to a worker
GuiHopLists ==
    {<<>>, <<TimeoutRecord(1)>>, <<ReplyRecord(1, IpTarget, <<4, 1>>)>>}

\* threading.Thread.is_alive(): started and not yet terminated
IsAlive(w) == worker_pc[w] \in {"trace", "post", "posted"}

\* line 88 without the test
TraceRunning_NoCheck == FALSE

\* line 88: self._trace_thread and self._trace_thread.is_alive()
TraceRunning == trace_thread # 0 /\ IsAlive(trace_thread)

\* lines 86-108: start_trace(), called by the handler src
StartTrace(src) ==
    IF TraceRunning
    THEN /\ event' = <<src, "skipped">>
         /\ UNCHANGED <<trace_thread, worker_pc, worker_tgt, worker_hops, started>>
    ELSE /\ started < MaxWorkers
         /\ started' = started + 1
         /\ trace_thread' = started + 1
         /\ worker_tgt' = [worker_tgt EXCEPT ![started + 1] = target_entry]
         /\ \E ok \in BOOLEAN :
               \* line 108: Thread.start() starts the thread, or raises
               /\ worker_pc' = [worker_pc EXCEPT ![started + 1] =
                                   IF ok THEN "trace" ELSE "unstarted"]
               /\ event' = <<src, IF ok THEN "started" ELSE "failed">>
         /\ UNCHANGED worker_hops

\* root.after(): an id that no pending timer has and auto_after_id does not hold
FreshId(pending) ==
    CHOOSE n \in 1..(Cardinality(pending) + 2) :
        /\ n \notin pending \cup {auto_after_id}
        /\ \A m \in 1..(n - 1) : m \in pending \cup {auto_after_id}

\* lines 173-183: schedule_next_trace(), the timers in pending still to fire
ScheduleNextTrace(pending) ==
    LET kept == pending \ {auto_after_id}
    IN  \E ok \in BOOLEAN :
           IF ok
           THEN /\ after_pending' = kept \cup {FreshId(kept)}
                /\ auto_after_id' = FreshId(kept)
           ELSE \* line 181 raises: lines 182-183
                /\ after_pending' = kept
                /\ UNCHANGED auto_after_id

\* lines 28-33: the application is constructed and enters its main loop
InitGui ==
    /\ target_host = IpTarget
    /\ max_hops = 1
    /\ method = "tracert"
    /\ platform = <<"w", "i", "n", "3", "2">>
    /\ conf_iface = "eth0"
    /\ pc = "gui"
    /\ site = ""
    /\ out = <<>>
    /\ idx = 0
    /\ hops = <<>>
    /\ interfaces = <<>>
    /\ ttl = 0
    /\ calls = <<>>
    /\ probes = <<>>
    /\ ret_tracert = <<>>
    /\ ret_scapy = <<>>
    /\ result = <<>>
    /\ GuiConstructed
    /\ init_pending \in BOOLEAN
    /\ event = <<"none", "none">>

\* lines 35-40: the timer of line 29 fires
StartAndSchedule ==
    /\ init_pending
    /\ init_pending' = FALSE
    /\ StartTrace("init")
    /\ UNCHANGED <<tracer, target_entry, auto_after_id, after_pending,
                   completions, delivered>>

\* line 52: the Trace button is clicked
ClickTrace ==
    /\ StartTrace("click")
    /\ UNCHANGED <<tracer, target_entry, init_pending, auto_after_id,
                   after_pending, completions, delivered>>

\* lines 48-50: the user types another target
EditTarget ==
    /\ \E t \in Targets : t # target_entry /\ target_entry' = t
    /\ event' = <<"edit", "none">>
    /\ UNCHANGED <<tracer, trace_thread, worker_pc, worker_tgt, worker_hops,
                   started, init_pending, auto_after_id, after_pending,
                   completions, delivered>>

\* lines 193-201: an auto-trace timer fires
AutoTrace ==
    /\ \E t \in after_pending :
          /\ StartTrace("auto")
          /\ ScheduleNextTrace(after_pending \ {t})
    /\ UNCHANGED <<tracer, target_entry, init_pending, completions, delivered>>

\* lines 110-171: a completion callback runs; the drawing of lines 116-130
\* may raise, and then line 171 is not reached
OnTraceComplete ==
    /\ completions # <<>>
    /\ completions' = Tail(completions)
    /\ delivered' = [delivered EXCEPT ![Head(completions).w] =
                        Append(@, Head(completions).hops)]
    /\ \/ ScheduleNextTrace(after_pending)
       \/ UNCHANGED <<auto_after_id, after_pending>>
    /\ event' = <<"complete", "none">>
    /\ UNCHANGED <<tracer, trace_thread, worker_pc, worker_tgt, worker_hops,
                   started, target_entry, init_pending>>

\* lines 95-100: the worker runs tracer.trace(); an exception gives []
WorkerTrace ==
    /\ \E w \in Workers :
          /\ worker_pc[w] = "trace"
          /\ worker_pc' = [worker_pc EXCEPT ![w] = "post"]
          /\ \E h \in GuiHopLists : worker_hops' = [worker_hops EXCEPT ![w] = h]
    /\ event' = <<"worker", "trace">>
    /\ UNCHANGED <<tracer, trace_thread, worker_tgt, started, target_entry,
                   init_pending, auto_after_id, after_pending, completions,
                   delivered>>

\* lines 102-105: the worker hands its hops to the main thread, or
\* root.after() raises and nothing is handed over
WorkerPost ==
    /\ \E w \in Workers :
          /\ worker_pc[w] = "post"
          /\ worker_pc' = [worker_pc EXCEPT ![w] = "posted"]
          /\ \/ completions' = Append(completions, [w |-> w, hops |-> worker_hops[w]])
             \/ UNCHANGED completions
    /\ event' = <<"worker", "post">>
    /\ UNCHANGED <<tracer, trace_thread, worker_tgt, worker_hops, started,
                   target_entry, init_pending, auto_after_id, after_pending,
                   delivered>>

\* line 105 on: the worker function returns and the thread terminates
WorkerExit ==
    /\ \E w \in Workers :
          /\ worker_pc[w] = "posted"
          /\ worker_pc' = [worker_pc EXCEPT ![w] = "dead"]
    /\ event' = <<"worker", "exit">>
    /\ UNCHANGED <<tracer, trace_thread, worker_tgt, worker_hops, started,
                   target_entry, init_pending, auto_after_id, after_pending,
                   completions, delivered>>

NextGui ==
    \/ StartAndSchedule
    \/ ClickTrace
    \/ EditTarget
    \/ AutoTrace
    \/ OnTraceComplete
    \/ WorkerTrace
    \/ WorkerPost
    \/ WorkerExit

SpecGui == InitGui /\ [][NextGui]_vars

(***************************************************************************)
(* Properties.                                                             *)
(***************************************************************************)
Last(q) == q[Len(q)]

\* the strategy that is running, or ran last
Running(strategy) == calls # <<>> /\ Last(calls) = strategy

HopIndexes(h) == [k \in 1..Len(h) |-> h[k].hop]

\* a sequence of numbers that starts at 1 and strictly increases
StrictlyIncreasingFrom1(q) ==
    /\ q # <<>> => q[1] = 1
    /\ \A i, j \in 1..Len(q) : i < j => q[i] < q[j]

\* a line whose first white-space-delimited token is a decimal number
IsNumberedLine(l) ==
    /\ Split(l) # <<>>
    /\ Split(l)[1] # <<>>
    /\ \A k \in 1..Len(Split(l)[1]) : Split(l)[1][k] \in AsciiDigits

\* the numbers that lead the numbered lines of an output, in order
LeadingNumbers(o) ==
    LET numbered == SelectSeq(o, IsNumberedLine)
    IN  [k \in 1..Len(numbered) |-> IntOf(Split(numbered[k])[1])]

\* C1: whenever trace() has run the external-tool strategy and that strategy
\* returned an empty hop list, trace() has then run the raw-probe strategy
\* exactly once and returned exactly its result.
C1_FallbackAfterEmptyTool ==
    (pc = "done" /\ ret_tracert = <<<<>>>>) =>
        /\ calls = <<"tracert", "scapy">>
        /\ ret_scapy # <<>>
        /\ result = ret_scapy

\* C2: no exception crosses the trace() boundary: the call never ends by
\* raising, whatever a strategy meets.
C2_NoExceptionCrossesTrace == pc # "raised"

\* C3 as stated: the hop list returned by trace() has hop_index values that
\* are strictly increasing and start at 1, whichever strategy produced it.
C3_HopIndexIncreasingAlways ==
    pc = "done" => StrictlyIncreasingFrom1(HopIndexes(result[1]))

\* C3 as amended: the hop list returned by trace() has hop_index values that
\* are strictly increasing and start at 1 when the raw-probe strategy
\* produced it, and when the external-tool strategy produced it from an
\* output whose numbered lines are numbered in strictly increasing order
\* from 1 (the parser copies the numbers of the lines).
C3_HopIndexIncreasing ==
    (pc = "done" /\ (Running("scapy") \/ StrictlyIncreasingFrom1(LeadingNumbers(out)))) =>
        StrictlyIncreasingFrom1(HopIndexes(result[1]))

C3_Witness ==
    /\ pc = "done"
    /\ Running("tracert")
    /\ StrictlyIncreasingFrom1(LeadingNumbers(out))
    /\ Len(result[1]) >= 2

\* the positions of the lines of the output that yield a record
DataLines == {p \in 1..Len(out) : ParseLine(out[p]).kind = "hop"}

\* the positions of the data lines whose address is the target
StopLines == {p \in DataLines : ParseLine(out[p]).rec.ip = target_host}

\* C4: the parser stops at the target: only the last record of a parser
\* result can have the target's address, and when a data line has it, the
\* first such line yields the last record and no later line yields one.
C4_ParserStopsAtTarget ==
    /\ pc = "parse" => \A k \in 1..Len(hops) : hops[k].ip # target_host
    /\ pc = "tracert_ret" =>
          /\ \A k \in 1..(Len(hops) - 1) : hops[k].ip # target_host
          /\ StopLines # {} =>
                LET stop == CHOOSE p \in StopLines : \A q \in StopLines : p <= q
                IN  /\ Len(hops) = Cardinality({p \in DataLines : p <= stop})
                    /\ Last(hops) = ParseLine(out[stop]).rec

C4_Witness ==
    /\ pc = "tracert_ret"
    /\ hops # <<>>
    /\ Last(hops).ip = target_host
    /\ \E p \in DataLines : \A q \in StopLines : p > q

\* C5: the raw-probe strategy emits at most max_hops records, probes the
\* TTLs 1, 2, 3, ... in order with record k carrying hop_index k, and sends
\* no probe after a reply from the target, whose record is the last one.
C5_RawProbeOrderAndStop ==
    /\ probes = [k \in 1..Len(probes) |-> k]
    /\ Len(probes) <= max_hops
    /\ Running("scapy") =>
          /\ Len(hops) <= max_hops
          /\ \A k \in 1..Len(hops) : hops[k].hop = k
          /\ \A k \in 1..Len(hops) :
                hops[k].ip = target_host => k = Len(hops) /\ Len(probes) = k
          /\ pc \in {"probe", "scapy_ret", "done"} => Len(probes) = Len(hops)
          /\ pc = "done" => result = <<hops>>

C5_Witness ==
    /\ pc = "scapy_ret"
    /\ hops # <<>>
    /\ Len(hops) < max_hops
    /\ Last(hops).ip = target_host

\* C6 as stated: every record returned by trace(), from either strategy,
\* whose address is "*" has latency -1, and a concrete address with latency
\* -1 occurs only in the external-tool path.
C6_SentinelPairingAlways ==
    pc = "done" =>
        \A k \in 1..Len(result[1]) :
            /\ result[1][k].ip = Star => result[1][k].latency = MinusOne
            /\ (result[1][k].ip # Star /\ result[1][k].latency = MinusOne)
                  => Running("tracert")

\* C6 as amended: every record returned by trace() from the raw-probe
\* strategy whose address is "*" has latency -1, and a concrete address with
\* latency -1 occurs only in the external-tool path; a record of the
\* external-tool path with address "*" has the mean of its line's samples
\* as latency, which is -1 only when the line has no sample.
C6_SentinelPairingRawProbe ==
    /\ (pc = "done" /\ Running("scapy")) =>
          \A k \in 1..Len(result[1]) :
              result[1][k].ip = Star <=> result[1][k].latency = MinusOne
    /\ pc \in {"parse", "tracert_ret"} =>
          \A k \in 1..Len(hops) :
              \E p \in DataLines :
                  /\ hops[k] = ParseLine(out[p]).rec
                  /\ hops[k].latency = MinusOne <=> RttFindAll(Strip(out[p]), 1) = <<>>

C6_Witness ==
    /\ pc = "done"
    /\ Running("scapy")
    /\ \E k \in 1..Len(result[1]) : result[1][k].ip = Star
    /\ \E k \in 1..Len(result[1]) : result[1][k].ip # Star

\* the record the claim gives a numbered line: the leading number, the first
\* dotted quad or "*", the mean of the "<integer> ms" samples or -1
ClaimedRecord(l) ==
    [hop |-> IntOf(Split(l)[1]),
     ip |-> IF IpSearch(l) # <<>> THEN IpSearch(l)[1] ELSE Star,
     latency |-> IF RttFindAll(l, 1) # <<>>
                 THEN Ratio(Sum(RttFindAll(l, 1)), Len(RttFindAll(l, 1)))
                 ELSE MinusOne]

\* the records the claim gives an output: one per numbered line, up to and
\* including the first whose address is the target
RECURSIVE ClaimedRecords(_)
ClaimedRecords(o) ==
    IF o = <<>> THEN <<>>
    ELSE IF ~IsNumberedLine(o[1]) THEN ClaimedRecords(Tail(o))
    ELSE IF ClaimedRecord(o[1]).ip = target_host THEN <<ClaimedRecord(o[1])>>
    ELSE <<ClaimedRecord(o[1])>> \o ClaimedRecords(Tail(o))

\* C7: for every sequence of output lines the parser yields exactly one
\* record per line whose first token is an integer, up to and including the
\* stop line, and none for the other lines; the record has the integer as
\* hop_index, the first dotted quad or "*" as address, and the mean of the
\* "<integer> ms" samples or -1 as latency.
C7_ParserRecords ==
    (Running("tracert") /\ pc \in {"tracert_ret", "raised"}) =>
        /\ pc = "tracert_ret"
        /\ hops = ClaimedRecords(out)

\* C8: no step of a trace() call writes shared state: the tracer's
\* target_host, max_hops and method and the process-wide conf.iface keep
\* their values.
C8_NoSharedStateWritten ==
    [][/\ target_host' = target_host
       /\ max_hops' = max_hops
       /\ method' = method
       /\ conf_iface' = conf_iface]_vars

\* C9: within one trace() call each strategy runs at most once and the
\* raw-probe strategy never before the external-tool strategy; when the
\* external-tool strategy returns a non-empty hop list trace() returns
\* exactly that list without invoking the raw-probe strategy; when the
\* method is "scapy" the external tool is never invoked.
C9_OneFallbackHandOff ==
    /\ calls \in {<<>>, <<"tracert">>, <<"scapy">>, <<"tracert", "scapy">>}
    /\ (ret_tracert # <<>> /\ ret_tracert[1] # <<>>) =>
          /\ calls = <<"tracert">>
          /\ pc = "done"
          /\ result = ret_tracert
    /\ method = "scapy" => \A k \in 1..Len(calls) : calls[k] # "tracert"

C9_Witness ==
    /\ pc = "done"
    /\ site = "L88"
    /\ calls = <<"tracert">>
    /\ result # <<>>
    /\ result[1] # <<>>

\* C10: when the platform's interface list is empty, the raw-probe strategy
\* sends no probe for any TTL and returns an empty hop list.
C10_NoInterfaceNoProbe ==
    (Running("scapy") /\ pc \in {"probe", "scapy_ret", "done"} /\ interfaces = <<>>) =>
        /\ probes = <<>>
        /\ hops = <<>>

\* the worker threads that are alive
AliveWorkers == {w \in Workers : IsAlive(w)}

\* the handlers that ask for a trace
TraceRequests == {"init", "click", "auto"}

\* C11: in the GUI shell at most one trace worker is in flight at any time;
\* a start_trace request that arrives while a worker is alive starts no new
\* worker and leaves the running one untouched; each worker's hop list is
\* delivered to _on_trace_complete at most once, and only its own list.
C11_OneWorkerInFlight ==
    /\ [](/\ Cardinality(AliveWorkers) <= 1
          /\ \A w \in Workers :
                /\ Len(delivered[w]) <= 1
                /\ delivered[w] # <<>> =>
                      /\ worker_pc[w] \in {"posted", "dead"}
                      /\ delivered[w] = <<worker_hops[w]>>)
    /\ [][(AliveWorkers # {} /\ event' # event /\ event'[1] \in TraceRequests) =>
             /\ started' = started
             /\ trace_thread' = trace_thread
             /\ worker_pc' = worker_pc
             /\ worker_tgt' = worker_tgt
             /\ worker_hops' = worker_hops
             /\ completions' = completions]_vars

C11_Witness ==
    /\ event = <<"click", "skipped">>
    /\ started = 2
    /\ IsAlive(2)
    /\ delivered[1] # <<>>
    /\ after_pending # {}

=============================================================================
